---- MODULE Spec2Model ----
(***************************************************************************)
(* A model of the kvm crate (src/kvm/src/lib.rs): the Kvm, VmFd, VcpuFd    *)
(* and CpuId wrappers around the kernel's KVM interface.                   *)
(*                                                                         *)
(* The kernel is the environment: every raw ioctl result, every errno and  *)
(* every content of the mapped kvm_run block is an input drawn with \E.    *)
(* Each action is one call of the wrapper; `ret` holds the outcome of the  *)
(* last call together with the raw kernel results it was computed from.    *)
(*                                                                         *)
(* The specifications share the variables:                                 *)
(*   Spec      Kvm queries and CpuId buffers                               *)
(*   SpecVm    construction, accessors and destruction of a VmFd           *)
(*   SpecVcpu  construction, run() and destruction of a VcpuFd             *)
(*   SpecCtor  constructors and destructors of VmFd and VcpuFd together    *)
(***************************************************************************)
EXTENDS Integers, Sequences, FiniteSets, TLC

VARIABLES
    kvm,        \* the Kvm value: NoKvm or [kvm |-> fd]
    vm,         \* the VmFd value: NoVm or [vm |-> fd, cpuid |-> ref, run_size |-> n]
    vcpu,       \* the VcpuFd value: NoVcpu or [vcpu |-> fd, run_mmap |-> mapping, dropped |-> fields]
    heap,       \* CpuId buffers by reference (a CpuId owns its Vec<u8>)
    user,       \* the reference of the CpuId the caller holds, or NoRef
    openFds,    \* kernel: descriptors open in the process
    mappings,   \* kernel: live memory mappings [fd, size]
    views,      \* run numbers whose VcpuExit byte view the caller still holds
    runSeq,     \* number of run() calls issued on the current VcpuFd
    ctor,       \* what the Kvm queries returned inside the last successful VmFd::new
    kern,       \* kernel: the irqchip of the VM, the registers and MSRs of the VCPU
    ret         \* outcome of the last call

vars == <<kvm, vm, vcpu, heap, user, openFds, mappings, views, runSeq, ctor, kern, ret>>

----------------------------------------------------------------------------
(* Bounds of the model *)

\* raw ioctl results range over -MaxNeg .. MaxRaw
MaxNeg == 1
MaxRaw == 5
\* capacity of a CpuId the caller asks for
MaxLen == 3
\* an unsafe writer may set nent up to MaxExtra beyond the allocated length
MaxExtra == 2
\* run() calls issued on one VcpuFd
MaxRuns == 3
\* io.count and io.data_offset written by the kernel
MaxCount == 2
MaxOffset == 2
\* mmio.len written by the kernel
MaxMmioLen == 9
\* io.port, io.size, mmio.phys_addr and mmio.is_write written by the kernel
MaxPort == 1
MaxSize == 2
MaxAddr == 1
MaxIsWrite == 2
\* the id given to VcpuFd::new
MaxId == 1
\* contents of a register set and of an MSR; entries given to set_msrs
MaxReg == 1
MaxMsrs == 2

RawResults == (0 - MaxNeg)..MaxRaw

\* errno values the kernel leaves behind; NoErrno where errno is not read
Errnos == {"EINVAL", "ENOMEM"}
NoErrno == "none"
ErrnoOf(failed) == IF failed THEN Errnos ELSE {NoErrno}

Min(a, b) == IF a < b THEN a ELSE b

----------------------------------------------------------------------------
(* Values *)

NoKvm == [none |-> "Kvm"]
NoVm == [none |-> "VmFd"]
NoVcpu == [none |-> "VcpuFd"]
NoCpuId == [none |-> "CpuId"]
NoRun == [none |-> "kvm_run"]
NoRef == "none"
Unit == [unit |-> TRUE]

\* the register sets of a VCPU that are moved as one fixed-layout structure
RegSets == {"regs", "sregs", "fpu", "lapic"}

\* contents of a register set, of the data of an MSR
RegValues == 0..MaxReg

\* the MSRs the source names (0x174, 0x175)
MsrIndices == {"IA32_SYSENTER_CS", "IA32_SYSENTER_ESP"}

\* the kernel's state of a new VM and of a new VCPU: no irqchip, registers
\* and MSRs at their reset value
KernInit ==
    [irqchip |-> FALSE,
     regs |-> [s \in RegSets |-> 0],
     msrs |-> [i \in MsrIndices |-> 0]]

\* sys_util::Result
Ok(v) == [status |-> "Ok", val |-> v]
Err(e) == [status |-> "Err", val |-> e]
Panic(m) == [status |-> "Panic", val |-> m]

\* the outcome of a call, with the raw kernel results it was computed from
Call(op, raw, res) == [op |-> op, raw |-> raw, status |-> res.status, val |-> res.val]

\* descriptors 0, 1 and 2 are open when the process starts
Stdio == 0..2

\* the kernel hands out the lowest-numbered descriptor that is not open
LowestFree(fds) == CHOOSE f \in 0..(Cardinality(fds)) : f \notin fds /\ \A g \in 0..(f - 1) : g \in fds

File_leak(fds, fd) == fds

\* a File that owns fd goes out of scope: its destructor closes fd
File_drop(fds, fd) == fds \ {fd}

----------------------------------------------------------------------------
(* CpuId: kvm_cpuid2 header plus a trailing array of allocated_len entries *)

\* content of a zeroed entry, of an entry filled in by the kernel, and of an
\* entry edited by the caller
ZeroEntry == "zero"
KernelEntry == "kernel"
UserEntry == "user"

CpuIdRefs == {"cached", "user"}

\* CpuId::new: zero-filled buffer, nent set to the allocated length (the
\* lengths of the model are far below 2^32, where `as u32` keeps the value)
CpuId_new(array_len) ==
    [nent |-> array_len,
     allocated_len |-> array_len,
     entries |-> [i \in 1..array_len |-> ZeroEntry]]

\* #[derive(Clone)]: a copy of the bytes and of allocated_len
CpuId_clone(c) ==
    [nent |-> c.nent,
     allocated_len |-> c.allocated_len,
     entries |-> [i \in DOMAIN c.entries |-> c.entries[i]]]

mut_entries_slice_unclamped(c) == [cpuid |-> c, len |-> c.nent]

\* CpuId::mut_entries_slice: the CpuId after the call and the length of the
\* slice it returns
mut_entries_slice(c) ==
    LET nent == IF c.nent > c.allocated_len THEN c.allocated_len ELSE c.nent
    IN  [cpuid |-> [c EXCEPT !.nent = nent], len |-> nent]

\* a write of the header count through as_mut_ptr
write_nent(c, n) == [c EXCEPT !.nent = n]

\* KVM_GET_SUPPORTED_CPUID: the kernel fills in n <= nent entries and sets nent to n
kernel_fill(c, n) ==
    [c EXCEPT !.nent = n,
              !.entries = [i \in DOMAIN c.entries |-> IF i <= n THEN KernelEntry ELSE ZeroEntry]]

----------------------------------------------------------------------------
(* Kvm *)

\* the Cap values the source names
Caps == {"UserMemory", "S390UserSigp", "NrVcpus", "ExtCpuid", "Irqchip"}

\* the documented default of KVM_CAP_NR_VCPUS
DefaultNrVcpus == 4

check_extension_nonzero(x) == x > 0

\* Kvm::check_extension on the raw result of check_extension_int
check_extension(x) == x = 1

\* Kvm::get_vcpu_mmap_size on the raw result; e is errno
get_vcpu_mmap_size(res, e) == IF res > 0 THEN Ok(res) ELSE Err(e)

get_nr_vcpus_floor(x) == IF x > DefaultNrVcpus THEN x ELSE DefaultNrVcpus

get_nr_vcpus_verbatim(x) == IF x = 0 THEN DefaultNrVcpus ELSE x

\* Kvm::get_nr_vcpus on the raw result of check_extension_int(Cap::NrVcpus)
get_nr_vcpus(x) ==
    IF x = 0 THEN DefaultNrVcpus
    ELSE IF x > 0 THEN x
    ELSE DefaultNrVcpus

\* Kvm::get_supported_cpuid: r is the raw result, n the count the kernel
\* reports, e is errno
get_supported_cpuid(max_cpus, r, n, e) ==
    LET cpuid == CpuId_new(max_cpus)
    IN  IF r < 0 THEN Err(e) ELSE Ok(kernel_fill(cpuid, n))

----------------------------------------------------------------------------
(* Calls on Kvm and on a CpuId held by the caller *)

\* a panic unwinds the calling thread: nothing runs after it
Alive == ret.status # "Panic"

\* no VcpuFd is half-way through its destructor
Idle == Alive /\ (IF vcpu = NoVcpu THEN TRUE ELSE vcpu.dropped = {})

\* Kvm::new: open("/dev/kvm")
Kvm_new ==
    /\ Idle /\ kvm = NoKvm
    /\ \E failed \in BOOLEAN :
       \E e \in ErrnoOf(failed) :
          IF failed
          THEN /\ ret' = Call("Kvm::new", -1, Err(e))
               /\ UNCHANGED <<kvm, openFds>>
          ELSE LET fd == LowestFree(openFds)
               IN  /\ kvm' = [kvm |-> fd]
                   /\ openFds' = openFds \cup {fd}
                   /\ ret' = Call("Kvm::new", fd, Ok(Unit))
    /\ UNCHANGED <<vm, vcpu, heap, user, mappings, views, runSeq, ctor, kern>>

Kvm_check_extension ==
    /\ Idle /\ kvm # NoKvm
    /\ \E c \in Caps, x \in RawResults :
          ret' = Call("check_extension", [c |-> c, x |-> x], Ok(check_extension(x)))
    /\ UNCHANGED <<kvm, vm, vcpu, heap, user, openFds, mappings, views, runSeq, ctor, kern>>

Kvm_get_vcpu_mmap_size ==
    /\ Idle /\ kvm # NoKvm
    /\ \E res \in RawResults :
       \E e \in ErrnoOf(res <= 0) :
          ret' = Call("get_vcpu_mmap_size", res, get_vcpu_mmap_size(res, e))
    /\ UNCHANGED <<kvm, vm, vcpu, heap, user, openFds, mappings, views, runSeq, ctor, kern>>

Kvm_get_nr_vcpus ==
    /\ Idle /\ kvm # NoKvm
    /\ \E x \in RawResults :
          ret' = Call("get_nr_vcpus", x, Ok(get_nr_vcpus(x)))
    /\ UNCHANGED <<kvm, vm, vcpu, heap, user, openFds, mappings, views, runSeq, ctor, kern>>

\* the CpuId returned on success is the one the caller holds from then on
Kvm_get_supported_cpuid ==
    /\ Idle /\ kvm # NoKvm
    /\ \E max_cpus \in 0..MaxLen, r \in RawResults :
       \E e \in ErrnoOf(r < 0), n \in (IF r < 0 THEN {max_cpus} ELSE 0..max_cpus) :
          LET res == get_supported_cpuid(max_cpus, r, n, e)
          IN  /\ ret' = Call("get_supported_cpuid", [max_cpus |-> max_cpus, r |-> r], res)
              /\ IF res.status = "Ok"
                 THEN /\ heap' = [heap EXCEPT !["user"] = res.val]
                      /\ user' = "user"
                 ELSE UNCHANGED <<heap, user>>
    /\ UNCHANGED <<kvm, vm, vcpu, openFds, mappings, views, runSeq, ctor, kern>>

CpuId_New ==
    /\ Idle
    /\ \E array_len \in 0..MaxLen :
          /\ heap' = [heap EXCEPT !["user"] = CpuId_new(array_len)]
          /\ user' = "user"
          /\ ret' = Call("CpuId::new", array_len, Ok(Unit))
    /\ UNCHANGED <<kvm, vm, vcpu, openFds, mappings, views, runSeq, ctor, kern>>

\* a write of nent through CpuId::as_mut_ptr, by the kernel or by the caller
CpuId_write_nent ==
    /\ Idle /\ user # NoRef
    /\ \E n \in 0..(heap[user].allocated_len + MaxExtra) :
          /\ heap' = [heap EXCEPT ![user] = write_nent(@, n)]
          /\ ret' = Call("as_mut_ptr", n, Ok(Unit))
    /\ UNCHANGED <<kvm, vm, vcpu, user, openFds, mappings, views, runSeq, ctor, kern>>

\* CpuId::mut_entries_slice; the caller may then edit the first entry of the
\* slice (i = 0: no edit).  ret.raw is the CpuId before the call.
CpuId_mut_entries_slice ==
    /\ Idle /\ user # NoRef
    /\ LET r == mut_entries_slice(heap[user])
       IN  \E i \in {0, Min(1, r.len)} :
              /\ heap' = [heap EXCEPT ![user] =
                            IF i = 0 THEN r.cpuid
                            ELSE [r.cpuid EXCEPT !.entries[i] = UserEntry]]
              /\ ret' = Call("mut_entries_slice", heap[user], Ok([len |-> r.len, edited |-> i]))
    /\ UNCHANGED <<kvm, vm, vcpu, user, openFds, mappings, views, runSeq, ctor, kern>>

\* the caller's CpuId goes out of scope
CpuId_drop ==
    /\ Idle /\ user # NoRef
    /\ heap' = [heap EXCEPT ![user] = NoCpuId]
    /\ user' = NoRef
    /\ ret' = Call("drop(CpuId)", 0, Ok(Unit))
    /\ UNCHANGED <<kvm, vm, vcpu, openFds, mappings, views, runSeq, ctor, kern>>

Init ==
    /\ kvm = NoKvm
    /\ vm = NoVm
    /\ vcpu = NoVcpu
    /\ heap = [r \in CpuIdRefs |-> NoCpuId]
    /\ user = NoRef
    /\ openFds = Stdio
    /\ mappings = {}
    /\ views = {}
    /\ runSeq = 0
    /\ ctor = NoVm
    /\ kern = KernInit
    /\ ret = Call("start", 0, Ok(Unit))

Next ==
    \/ Kvm_new
    \/ Kvm_check_extension
    \/ Kvm_get_vcpu_mmap_size
    \/ Kvm_get_nr_vcpus
    \/ Kvm_get_supported_cpuid
    \/ CpuId_New
    \/ CpuId_write_nent
    \/ CpuId_mut_entries_slice
    \/ CpuId_drop

Spec == Init /\ [][Next]_vars

----------------------------------------------------------------------------
(* VmFd *)

\* VmFd::new.  ret.raw holds the raw result of each request the constructor
\* issued, in `issued` the requests themselves.  The File wrapping the new
\* descriptor is dropped, and the descriptor closed, when a `?` returns early.
VmFd_new ==
    /\ Idle /\ kvm # NoKvm /\ vm = NoVm
    /\ \E created \in BOOLEAN :
       \E e0 \in ErrnoOf(~created) :
          IF ~created
          THEN /\ ret' = Call("VmFd::new",
                              [create |-> -1, res |-> 0, x |-> 0, r |-> 0,
                               issued |-> <<"KVM_CREATE_VM">>],
                              Err(e0))
               /\ UNCHANGED <<vm, heap, openFds, ctor, kern>>
          ELSE
            LET vm_file == LowestFree(openFds) IN
            \E res \in RawResults :
            \E e1 \in ErrnoOf(res <= 0) :
               LET run_mmap_size == get_vcpu_mmap_size(res, e1) IN
               IF run_mmap_size.status = "Err"
               THEN /\ ret' = Call("VmFd::new",
                                   [create |-> vm_file, res |-> res, x |-> 0, r |-> 0,
                                    issued |-> <<"KVM_CREATE_VM", "KVM_GET_VCPU_MMAP_SIZE">>],
                                   Err(run_mmap_size.val))
                    /\ openFds' = File_drop(openFds \cup {vm_file}, vm_file)
                    /\ UNCHANGED <<vm, heap, ctor, kern>>
               ELSE
                 \E x \in RawResults, r \in RawResults :
                 LET max_cpus == get_nr_vcpus(x) IN
                 \E e2 \in ErrnoOf(r < 0), n \in (IF r < 0 THEN {max_cpus} ELSE 0..max_cpus) :
                    LET kvm_cpuid == get_supported_cpuid(max_cpus, r, n, e2)
                        raw == [create |-> vm_file, res |-> res, x |-> x, r |-> r,
                                issued |-> <<"KVM_CREATE_VM", "KVM_GET_VCPU_MMAP_SIZE",
                                             "KVM_CHECK_EXTENSION", "KVM_GET_SUPPORTED_CPUID">>]
                    IN  IF kvm_cpuid.status = "Err"
                        THEN /\ ret' = Call("VmFd::new", raw, Err(kvm_cpuid.val))
                             /\ openFds' = File_drop(openFds \cup {vm_file}, vm_file)
                             /\ UNCHANGED <<vm, heap, ctor, kern>>
                        ELSE /\ vm' = [vm |-> vm_file, cpuid |-> "cached",
                                       run_size |-> run_mmap_size.val]
                             /\ heap' = [heap EXCEPT !["cached"] = kvm_cpuid.val]
                             /\ openFds' = openFds \cup {vm_file}
                             /\ ctor' = [run_size |-> run_mmap_size.val, cpuid |-> kvm_cpuid.val]
                             /\ kern' = KernInit
                             /\ ret' = Call("VmFd::new", raw, Ok(Unit))
    /\ UNCHANGED <<kvm, vcpu, user, mappings, views, runSeq>>

VmFd_get_run_size ==
    /\ Idle /\ vm # NoVm
    /\ ret' = Call("get_run_size", 0, Ok(vm.run_size))
    /\ UNCHANGED <<kvm, vm, vcpu, heap, user, openFds, mappings, views, runSeq, ctor, kern>>

\* the caller is handed the cached buffer itself
VmFd_get_cpuid_alias ==
    /\ Idle /\ vm # NoVm
    /\ user' = vm.cpuid
    /\ ret' = Call("get_cpuid", 0, Ok(vm.cpuid))
    /\ UNCHANGED <<kvm, vm, vcpu, heap, openFds, mappings, views, runSeq, ctor, kern>>

\* VmFd::get_cpuid: the caller is handed a clone of the cached CpuId
VmFd_get_cpuid ==
    /\ Idle /\ vm # NoVm
    /\ heap' = [heap EXCEPT !["user"] = CpuId_clone(heap[vm.cpuid])]
    /\ user' = "user"
    /\ ret' = Call("get_cpuid", 0, Ok("user"))
    /\ UNCHANGED <<kvm, vm, vcpu, openFds, mappings, views, runSeq, ctor, kern>>

\* the VmFd goes out of scope: its File is closed and its CpuId freed.  The
\* callers modelled let go of the clones they took before they drop the VmFd.
VmFd_drop ==
    /\ Idle /\ vm # NoVm /\ user = NoRef
    /\ openFds' = File_drop(openFds, vm.vm)
    /\ heap' = [heap EXCEPT ![vm.cpuid] = NoCpuId]
    /\ user' = NoRef
    /\ vm' = NoVm
    /\ ctor' = NoVm
    /\ kern' = KernInit
    /\ ret' = Call("drop(VmFd)", 0, Ok(Unit))
    /\ UNCHANGED <<kvm, vcpu, mappings, views, runSeq>>

\* VmFd::create_irq_chip on the raw result of KVM_CREATE_IRQCHIP; e is errno
create_irq_chip(r, e) == IF r = 0 THEN Ok(Unit) ELSE Err(e)

\* VmFd::create_pit2 on the raw result of KVM_CREATE_PIT2; e is errno
create_pit2(r, e) == IF r = 0 THEN Ok(Unit) ELSE Err(e)

\* the kernel has created the irqchip of the VM when the request returns 0
VmFd_create_irq_chip ==
    /\ Idle /\ vm # NoVm
    /\ \E r \in RawResults :
       \E e \in ErrnoOf(r # 0) :
          /\ ret' = Call("create_irq_chip", [r |-> r], create_irq_chip(r, e))
          /\ kern' = [kern EXCEPT !.irqchip = @ \/ (r = 0)]
    /\ UNCHANGED <<kvm, vm, vcpu, heap, user, openFds, mappings, views, runSeq, ctor>>

\* VmFd::create_pit2 hands the request to the kernel whatever was called
\* before; ret.raw.irqchip tells whether the VM has an irqchip at that time
VmFd_create_pit2 ==
    /\ Idle /\ vm # NoVm
    /\ \E r \in RawResults :
       \E e \in ErrnoOf(r # 0) :
          ret' = Call("create_pit2", [r |-> r, irqchip |-> kern.irqchip], create_pit2(r, e))
    /\ UNCHANGED <<kvm, vm, vcpu, heap, user, openFds, mappings, views, runSeq, ctor, kern>>

\* /dev/kvm is open
InitVm ==
    /\ kvm = [kvm |-> LowestFree(Stdio)]
    /\ vm = NoVm
    /\ vcpu = NoVcpu
    /\ heap = [r \in CpuIdRefs |-> NoCpuId]
    /\ user = NoRef
    /\ openFds = Stdio \cup {LowestFree(Stdio)}
    /\ mappings = {}
    /\ views = {}
    /\ runSeq = 0
    /\ ctor = NoVm
    /\ kern = KernInit
    /\ ret = Call("Kvm::new", LowestFree(Stdio), Ok(Unit))

NextVm ==
    \/ VmFd_new
    \/ VmFd_create_irq_chip
    \/ VmFd_create_pit2
    \/ VmFd_get_run_size
    \/ VmFd_get_cpuid
    \/ VmFd_drop
    \/ CpuId_drop
    \/ CpuId_write_nent
    \/ CpuId_mut_entries_slice

SpecVm == InitVm /\ [][NextVm]_vars

----------------------------------------------------------------------------
(* Properties of Kvm, CpuId and VmFd *)

\* C5: mut_entries_slice() on a CpuId of capacity N returns a slice of length
\* min(nent, N), leaves nent <= N, and leaves nent alone when it was <= N.
C5_SliceWithinCapacity ==
    ret.op = "mut_entries_slice" =>
        LET before == ret.raw
            after == heap[user]
        IN  /\ ret.val.len = Min(before.nent, before.allocated_len)
            /\ ret.val.len <= before.allocated_len
            /\ after.allocated_len = before.allocated_len
            /\ after.nent <= after.allocated_len
            /\ (before.nent <= before.allocated_len => after.nent = before.nent)

\* the count had been forced beyond the capacity when the slice was taken
C5_Witness ==
    /\ ret.op = "mut_entries_slice"
    /\ ret.raw.allocated_len > 0
    /\ ret.raw.nent > ret.raw.allocated_len
    /\ heap[user].nent = ret.raw.allocated_len

\* C6: get_nr_vcpus() maps raw 0 to 4, a negative raw result to 4 and a
\* positive raw result to itself, so a raw result <= 0 never gives less than 4.
C6_NrVcpusMapping ==
    ret.op = "get_nr_vcpus" =>
        /\ (ret.raw = 0 => ret.val = 4)
        /\ (ret.raw < 0 => ret.val = 4)
        /\ (ret.raw > 0 => ret.val = ret.raw)
        /\ (ret.raw <= 0 => ret.val >= 4)

C6_Witness == ret.op = "get_nr_vcpus" /\ ret.raw < 0 /\ ret.val = 4

C8_CachedAtConstruction ==
    /\ ret.op = "VmFd::new" =>
          /\ ret.status \in {"Ok", "Err"}
          /\ (ret.status = "Ok" <=>
                 ret.raw.create >= 0 /\ ret.raw.res > 0 /\ ret.raw.r >= 0
                 /\ Len(ret.raw.issued) = 4)
          /\ (ret.status = "Ok" <=> vm # NoVm)
    /\ vm # NoVm =>
          /\ ctor # NoVm
          /\ vm.run_size = ctor.run_size
          /\ heap[vm.cpuid] = ctor.cpuid
    /\ (ret.op = "get_run_size" => ret.val = ctor.run_size)
    /\ (ret.op = "get_cpuid" => heap[ret.val] = ctor.cpuid)

\* the caller has changed the clone it took from a live VmFd
C8_Witness ==
    /\ vm # NoVm
    /\ ret.op \in {"as_mut_ptr", "mut_entries_slice"}
    /\ user # NoRef
    /\ heap[user] # ctor.cpuid

----------------------------------------------------------------------------
(* The kvm_run block and its decoding by VcpuFd::run *)

\* values of io.direction
KVM_EXIT_IO_IN == 0
KVM_EXIT_IO_OUT == 1

\* length of the inline buffer mmio.data
MmioDataLen == 8

\* the exit reasons run() matches that carry no payload, with their variant
NoPayloadExit ==
    [KVM_EXIT_UNKNOWN |-> "Unknown",
     KVM_EXIT_EXCEPTION |-> "Exception",
     KVM_EXIT_HYPERCALL |-> "Hypercall",
     KVM_EXIT_DEBUG |-> "Debug",
     KVM_EXIT_HLT |-> "Hlt",
     KVM_EXIT_IRQ_WINDOW_OPEN |-> "IrqWindowOpen",
     KVM_EXIT_SHUTDOWN |-> "Shutdown",
     KVM_EXIT_FAIL_ENTRY |-> "FailEntry",
     KVM_EXIT_INTR |-> "Intr",
     KVM_EXIT_SET_TPR |-> "SetTpr",
     KVM_EXIT_TPR_ACCESS |-> "TprAccess",
     KVM_EXIT_S390_SIEIC |-> "S390Sieic",
     KVM_EXIT_S390_RESET |-> "S390Reset",
     KVM_EXIT_DCR |-> "Dcr",
     KVM_EXIT_NMI |-> "Nmi",
     KVM_EXIT_INTERNAL_ERROR |-> "InternalError",
     KVM_EXIT_OSI |-> "Osi",
     KVM_EXIT_PAPR_HCALL |-> "PaprHcall",
     KVM_EXIT_S390_UCONTROL |-> "S390Ucontrol",
     KVM_EXIT_WATCHDOG |-> "Watchdog",
     KVM_EXIT_S390_TSCH |-> "S390Tsch",
     KVM_EXIT_EPR |-> "Epr",
     KVM_EXIT_SYSTEM_EVENT |-> "SystemEvent"]

\* every exit reason run() has a match arm for
KnownExitReasons == {"KVM_EXIT_IO", "KVM_EXIT_MMIO"} \cup DOMAIN NoPayloadExit

\* exit reasons of later kernels, which run() has no arm for
UnknownExitReasons == {"KVM_EXIT_S390_STSI", "KVM_EXIT_IOAPIC_EOI"}

NoPayload == [none |-> "payload"]

IoPayloads ==
    [direction : {KVM_EXIT_IO_IN, KVM_EXIT_IO_OUT, KVM_EXIT_IO_OUT + 1},
     size : 1..MaxSize,
     port : 0..MaxPort,
     count : 0..MaxCount,
     data_offset : 0..MaxOffset]

MmioPayloads ==
    [phys_addr : 0..MaxAddr,
     len : 0..MaxMmioLen,
     is_write : 0..MaxIsWrite]

\* what the kernel may leave in the block when KVM_RUN returns
KernelBlocks ==
    {[exit_reason |-> "KVM_EXIT_IO", payload |-> io] : io \in IoPayloads}
    \cup {[exit_reason |-> "KVM_EXIT_MMIO", payload |-> mmio] : mmio \in MmioPayloads}
    \cup {[exit_reason |-> t, payload |-> NoPayload] :
            t \in DOMAIN NoPayloadExit \cup UnknownExitReasons}

\* a byte view: len bytes at off from the start of the block ("kvm_run") or
\* of the inline buffer ("mmio.data")
View(base, off, len) == [base |-> base, off |-> off, len |-> len]

Exit(variant, arg, view) == [variant |-> variant, arg |-> arg, view |-> view]

ViewVariants == {"IoIn", "IoOut", "MmioRead", "MmioWrite"}

HasView(res) == res.status = "Ok" /\ res.val.variant \in ViewVariants

run_exit_io_count(io) ==
    LET data_slice == View("kvm_run", io.data_offset, io.count)
    IN  IF io.direction = KVM_EXIT_IO_IN THEN Ok(Exit("IoIn", io.port, data_slice))
        ELSE IF io.direction = KVM_EXIT_IO_OUT THEN Ok(Exit("IoOut", io.port, data_slice))
        ELSE Err("EINVAL")

\* the KVM_EXIT_IO arm of run()
run_exit_io(io) ==
    LET port == io.port
        data_size == io.count * io.size
        data_slice == View("kvm_run", io.data_offset, data_size)
    IN  IF io.direction = KVM_EXIT_IO_IN THEN Ok(Exit("IoIn", port, data_slice))
        ELSE IF io.direction = KVM_EXIT_IO_OUT THEN Ok(Exit("IoOut", port, data_slice))
        ELSE Err("EINVAL")

run_exit_mmio_is_one(mmio) ==
    IF mmio.len > MmioDataLen THEN Panic("slice index out of range")
    ELSE IF mmio.is_write = 1
         THEN Ok(Exit("MmioWrite", mmio.phys_addr, View("mmio.data", 0, mmio.len)))
         ELSE Ok(Exit("MmioRead", mmio.phys_addr, View("mmio.data", 0, mmio.len)))

\* the KVM_EXIT_MMIO arm of run(); indexing mmio.data[..len] panics when len
\* exceeds the length of the array
run_exit_mmio(mmio) ==
    LET addr == mmio.phys_addr
        len == mmio.len
    IN  IF len > MmioDataLen THEN Panic("slice index out of range")
        ELSE LET data_slice == View("mmio.data", 0, len)
             IN  IF mmio.is_write # 0
                 THEN Ok(Exit("MmioWrite", addr, data_slice))
                 ELSE Ok(Exit("MmioRead", addr, data_slice))

run_exit_unknown_is_err(run) ==
    IF run.exit_reason = "KVM_EXIT_IO" THEN run_exit_io(run.payload)
    ELSE IF run.exit_reason = "KVM_EXIT_MMIO" THEN run_exit_mmio(run.payload)
    ELSE IF run.exit_reason \in DOMAIN NoPayloadExit
         THEN Ok(Exit(NoPayloadExit[run.exit_reason], 0, NoPayload))
         ELSE Err("EINVAL")

\* the match on run.exit_reason in run()
run_exit(run) ==
    IF run.exit_reason = "KVM_EXIT_IO" THEN run_exit_io(run.payload)
    ELSE IF run.exit_reason = "KVM_EXIT_MMIO" THEN run_exit_mmio(run.payload)
    ELSE IF run.exit_reason \in DOMAIN NoPayloadExit
         THEN Ok(Exit(NoPayloadExit[run.exit_reason], 0, NoPayload))
         ELSE Panic("unknown kvm exit reason")

----------------------------------------------------------------------------
(* VcpuFd *)

from_fd_err_passthrough(e) == e

\* the error VcpuFd::new makes of a failed MemoryMapping::from_fd
from_fd_err(e) == "ENOSPC"

\* VcpuFd::new.  ret.raw holds the raw result of KVM_CREATE_VCPU with its
\* errno and the outcome of the mmap ("ok", its errno, or "not issued").  The
\* File wrapping the new descriptor is dropped when the `?` returns early.
VcpuFd_new ==
    /\ Idle /\ vm # NoVm /\ vcpu = NoVcpu
    /\ LET run_mmap_size == vm.run_size IN
       \E id \in 0..MaxId, created \in BOOLEAN :
       \E e0 \in ErrnoOf(~created) :
          IF ~created
          THEN /\ ret' = Call("VcpuFd::new",
                              [id |-> id, create |-> -1, errno |-> e0, mmap |-> "not issued"],
                              Err(e0))
               /\ UNCHANGED <<vcpu, openFds, mappings, kern>>
          ELSE
            LET vcpu_fd == LowestFree(openFds) IN
            \E mapped \in BOOLEAN :
            \E e1 \in ErrnoOf(~mapped) :
               IF ~mapped
               THEN /\ ret' = Call("VcpuFd::new",
                                   [id |-> id, create |-> vcpu_fd, errno |-> NoErrno, mmap |-> e1],
                                   Err(from_fd_err(e1)))
                    /\ openFds' = File_drop(openFds \cup {vcpu_fd}, vcpu_fd)
                    /\ UNCHANGED <<vcpu, mappings, kern>>
               ELSE LET run_mmap == [fd |-> vcpu_fd, size |-> run_mmap_size]
                    IN  /\ vcpu' = [vcpu |-> vcpu_fd, run_mmap |-> run_mmap, dropped |-> {}]
                        /\ openFds' = openFds \cup {vcpu_fd}
                        /\ mappings' = mappings \cup {run_mmap}
                        /\ kern' = [kern EXCEPT !.regs = KernInit.regs, !.msrs = KernInit.msrs]
                        /\ ret' = Call("VcpuFd::new",
                                       [id |-> id, create |-> vcpu_fd, errno |-> NoErrno, mmap |-> "ok"],
                                       Ok(Unit))
    /\ runSeq' = 0
    /\ views' = {}
    /\ UNCHANGED <<kvm, vm, heap, user, ctor>>

\* VcpuFd::run.  It takes &self, so the VcpuExit values of earlier calls, which
\* borrow the VcpuFd the same way, do not stand in its way.  ret.raw holds the
\* raw result of KVM_RUN and the block the kernel left.
VcpuFd_run ==
    /\ Idle /\ vcpu # NoVcpu /\ runSeq < MaxRuns
    /\ runSeq' = runSeq + 1
    /\ \E r \in RawResults :
          IF r = 0
          THEN \E run \in KernelBlocks :
                  LET res == run_exit(run)
                  IN  /\ ret' = Call("run", [r |-> r, run |-> run], res)
                      /\ views' = IF HasView(res) THEN views \cup {runSeq + 1} ELSE views
          ELSE \E e \in Errnos :
                  /\ ret' = Call("run", [r |-> r, run |-> NoRun], Err(e))
                  /\ UNCHANGED views
    /\ UNCHANGED <<kvm, vm, vcpu, heap, user, openFds, mappings, ctor, kern>>

\* the caller lets go of the VcpuExit of run number k
VcpuExit_drop ==
    /\ Idle
    /\ \E k \in views :
          /\ views' = views \ {k}
          /\ ret' = Call("drop(VcpuExit)", k, Ok(Unit))
    /\ UNCHANGED <<kvm, vm, vcpu, heap, user, openFds, mappings, runSeq, ctor, kern>>

\* The VcpuFd goes out of scope, which the borrows of live VcpuExit values
\* forbid.  Its fields are dropped in the order of their declaration: first
\* vcpu, the File, which closes the descriptor ...
VcpuFd_drop_vcpu ==
    /\ Idle /\ vcpu # NoVcpu /\ views = {}
    /\ openFds' = File_drop(openFds, vcpu.vcpu)
    /\ vcpu' = [vcpu EXCEPT !.dropped = {"vcpu"}]
    /\ ret' = Call("drop(VcpuFd.vcpu)", 0, Ok(Unit))
    /\ UNCHANGED <<kvm, vm, heap, user, mappings, views, runSeq, ctor, kern>>

\* ... then run_mmap, the MemoryMapping, which unmaps the block
VcpuFd_drop_run_mmap ==
    /\ Alive /\ vcpu # NoVcpu
    /\ vcpu.dropped = {"vcpu"}
    /\ mappings' = mappings \ {vcpu.run_mmap}
    /\ vcpu' = NoVcpu
    /\ runSeq' = 0
    /\ ret' = Call("drop(VcpuFd.run_mmap)", 0, Ok(Unit))
    /\ UNCHANGED <<kvm, vm, heap, user, openFds, views, ctor, kern>>

\* /dev/kvm is open and a VmFd has been constructed from it
InitVcpu ==
    LET kvm_fd == LowestFree(Stdio)
        vm_fd == LowestFree(Stdio \cup {kvm_fd})
        cpuid == kernel_fill(CpuId_new(DefaultNrVcpus), DefaultNrVcpus)
    IN  /\ kvm = [kvm |-> kvm_fd]
        /\ \E run_size \in {MaxRaw - 1, MaxRaw} :
              /\ vm = [vm |-> vm_fd, cpuid |-> "cached", run_size |-> run_size]
              /\ ctor = [run_size |-> run_size, cpuid |-> cpuid]
        /\ vcpu = NoVcpu
        /\ kern = KernInit
        /\ heap = [r \in CpuIdRefs |-> IF r = "cached" THEN cpuid ELSE NoCpuId]
        /\ user = NoRef
        /\ openFds = Stdio \cup {kvm_fd, vm_fd}
        /\ mappings = {}
        /\ views = {}
        /\ runSeq = 0
        /\ ret = Call("VmFd::new",
                      [create |-> vm_fd, res |-> vm.run_size, x |-> 0, r |-> 0,
                       issued |-> <<"KVM_CREATE_VM", "KVM_GET_VCPU_MMAP_SIZE",
                                    "KVM_CHECK_EXTENSION", "KVM_GET_SUPPORTED_CPUID">>],
                      Ok(Unit))

NextVcpu ==
    \/ VcpuFd_new
    \/ VcpuFd_run
    \/ VcpuExit_drop
    \/ VcpuFd_drop_vcpu
    \/ VcpuFd_drop_run_mmap

SpecVcpu == InitVcpu /\ [][NextVcpu]_vars

----------------------------------------------------------------------------
(* Properties of VcpuFd *)

\* C1 as stated: a byte view handed out by run number k is no longer held
\* once a later run() has been issued on the same VcpuFd.
C1_NoViewAcrossRuns == \A k \in views : k = runSeq

\* C2: when KVM_RUN returns 0 and exit_reason is not a known exit reason,
\* run() panics; it returns neither Ok nor Err.
C2_UnknownExitPanics ==
    (ret.op = "run" /\ ret.raw.r = 0) =>
        (ret.raw.run.exit_reason \notin KnownExitReasons => ret.status = "Panic")

C2_Witness ==
    /\ ret.op = "run" /\ ret.raw.r = 0
    /\ ret.raw.run.exit_reason \in UnknownExitReasons
    /\ ret.status = "Panic"

IsIoExit == ret.op = "run" /\ ret.raw.r = 0 /\ ret.raw.run.exit_reason = "KVM_EXIT_IO"

\* the IoIn or IoOut that io.direction = dir selects: it carries io.port and
\* the count*size bytes at data_offset from the start of the block
IoExitAsClaimed(io) ==
    /\ ret.status = "Ok"
    /\ ret.val.variant \in {"IoIn", "IoOut"}
    /\ (io.direction = KVM_EXIT_IO_IN => ret.val.variant = "IoIn")
    /\ (io.direction = KVM_EXIT_IO_OUT => ret.val.variant = "IoOut")
    /\ ret.val.arg = io.port
    /\ ret.val.view = View("kvm_run", io.data_offset, io.count * io.size)

\* C3 as stated: an IO exit yields IoIn or IoOut, whatever the IO payload holds.
C3_IoExitAlways == IsIoExit => IoExitAsClaimed(ret.raw.run.payload)

\* C3 amended: an IO exit whose direction is IN or OUT yields IoIn or IoOut
\* with the port and the count*size bytes at data_offset; any other direction
\* makes run() return the error EINVAL.
C3_IoExitByDirection ==
    IsIoExit =>
        LET io == ret.raw.run.payload
        IN  IF io.direction \in {KVM_EXIT_IO_IN, KVM_EXIT_IO_OUT}
            THEN IoExitAsClaimed(io)
            ELSE ret.status = "Err" /\ ret.val = "EINVAL"

C3_Witness ==
    /\ IsIoExit
    /\ ret.raw.run.payload.direction = KVM_EXIT_IO_OUT
    /\ ret.raw.run.payload.size > 1
    /\ ret.raw.run.payload.count > 1
    /\ ret.status = "Ok"
    /\ ret.val.variant = "IoOut"

IsMmioExit == ret.op = "run" /\ ret.raw.r = 0 /\ ret.raw.run.exit_reason = "KVM_EXIT_MMIO"

\* the MmioWrite or MmioRead that mmio.is_write selects: it carries
\* mmio.phys_addr and the first len bytes of the inline buffer
MmioExitAsClaimed(mmio) ==
    /\ ret.status = "Ok"
    /\ (mmio.is_write # 0 => ret.val.variant = "MmioWrite")
    /\ (mmio.is_write = 0 => ret.val.variant = "MmioRead")
    /\ ret.val.arg = mmio.phys_addr
    /\ ret.val.view = View("mmio.data", 0, mmio.len)

\* C4 as stated: an MMIO exit yields MmioWrite or MmioRead for every len.
C4_MmioExitAlways == IsMmioExit => MmioExitAsClaimed(ret.raw.run.payload)

\* C4 amended: an MMIO exit whose len is at most the length of the inline
\* buffer (8) yields MmioWrite when is_write is nonzero and MmioRead when it
\* is zero, with the address and the first len bytes of the buffer; a larger
\* len makes run() panic.
C4_MmioExitWithinBuffer ==
    IsMmioExit =>
        LET mmio == ret.raw.run.payload
        IN  IF mmio.len <= 8
            THEN MmioExitAsClaimed(mmio)
            ELSE ret.status = "Panic"

C4_Witness ==
    /\ IsMmioExit
    /\ ret.raw.run.payload.is_write > 1
    /\ ret.raw.run.payload.len = 8
    /\ ret.status = "Ok"
    /\ ret.val.variant = "MmioWrite"

\* C9: VcpuFd::new fails with the OS error of KVM_CREATE_VCPU when that
\* returns a negative result, fails with ENOSPC when the request succeeds but
\* the mapping fails, whatever the error of the mapping, and returns Ok only
\* when both succeeded, with a mapping of exactly vm.get_run_size() bytes.
C9_VcpuConstruction ==
    ret.op = "VcpuFd::new" =>
        /\ (ret.raw.create < 0 => ret.status = "Err" /\ ret.val = ret.raw.errno)
        /\ (ret.raw.create >= 0 /\ ret.raw.mmap # "ok" =>
               ret.status = "Err" /\ ret.val = "ENOSPC")
        /\ (ret.status = "Ok" <=> ret.raw.create >= 0 /\ ret.raw.mmap = "ok")
        /\ (ret.status = "Ok" <=> vcpu # NoVcpu)
        /\ (ret.status = "Ok" =>
               /\ vcpu.run_mmap.size = vm.run_size
               /\ vcpu.run_mmap.fd = vcpu.vcpu
               /\ vcpu.run_mmap \in mappings)

C9_Witness ==
    /\ ret.op = "VcpuFd::new"
    /\ ret.raw.create >= 0
    /\ ret.raw.mmap = "ENOMEM"
    /\ ret.status = "Err"
    /\ ret.val = "ENOSPC"

\* C10 as stated: the descriptor of a VcpuFd is never closed while the
\* mapping of the control block obtained from it still exists.
C10_UnmappedBeforeClose == \A m \in mappings : m.fd \in openFds

----------------------------------------------------------------------------
(* Further properties of Kvm and of VcpuFd::run *)

\* C14: for every capability and every raw result of the capability query,
\* check_extension() is true exactly when the raw result is 1.
C14_ExtensionIffOne ==
    ret.op = "check_extension" =>
        /\ ret.status = "Ok"
        /\ (ret.val <=> ret.raw.x = 1)

\* a positive raw result other than 1 was reported as unavailable
C14_Witness == ret.op = "check_extension" /\ ret.raw.x > 1 /\ ret.val = FALSE

\* C15 as stated: the byte view of every IO exit run() decodes lies inside the
\* mapped control block, whatever data_offset, count and size hold.
C15_IoViewInsideMapping ==
    (IsIoExit /\ ret.status = "Ok") =>
        ret.val.view.off + ret.val.view.len <= vcpu.run_mmap.size

----------------------------------------------------------------------------
(* Constructors and destructors of VmFd and VcpuFd *)

NextCtor ==
    \/ VmFd_new
    \/ VmFd_drop
    \/ VcpuFd_new
    \/ VcpuFd_drop_vcpu
    \/ VcpuFd_drop_run_mmap

SpecCtor == InitVm /\ [][NextCtor]_vars

\* the descriptors the live VmFd and VcpuFd values own
OwnedFds ==
    (IF vm = NoVm THEN {} ELSE {vm.vm})
    \cup (IF vcpu = NoVcpu THEN {}
          ELSE IF "vcpu" \in vcpu.dropped THEN {} ELSE {vcpu.vcpu})

\* the VM and VCPU descriptors open in the process
OpenVmVcpuFds == openFds \ (Stdio \cup (IF kvm = NoKvm THEN {} ELSE {kvm.kvm}))

\* C16: a constructor that fails after the kernel handed back a descriptor
\* has closed that descriptor when it returns, so the open VM and VCPU
\* descriptors are exactly those owned by the live VmFd and VcpuFd values.
C16_NoDescriptorLeak ==
    /\ OpenVmVcpuFds = OwnedFds
    /\ (ret.op \in {"VmFd::new", "VcpuFd::new"} /\ ret.status = "Err" =>
           (ret.raw.create >= 0 => ret.raw.create \notin openFds))

\* VcpuFd::new failed on the mapping, after the kernel had created the VCPU
C16_Witness ==
    /\ ret.op = "VcpuFd::new"
    /\ ret.status = "Err"
    /\ ret.raw.create >= 0
    /\ vm # NoVm

----------------------------------------------------------------------------
(* Properties of the in-kernel devices and of the registers *)

\* C11 as stated: create_pit2() returns an error on a VmFd on which no
\* create_irq_chip() has succeeded before.
C11_PitNeedsIrqChip ==
    (ret.op = "create_pit2" /\ ~ret.raw.irqchip) => ret.status = "Err"

----------------------------------------------------------------------------
(* Register transfer on a VcpuFd *)

\* the kernel side of a fixed-layout transfer: a request that does not fail
\* stores the structure given (set), or fills the caller's zeroed structure
\* with what is stored (get)
kernel_set(r, stored, x) == IF r >= 0 THEN x ELSE stored
kernel_get(r, stored) == IF r >= 0 THEN stored ELSE 0

\* the matching set when it was the call right before this one
PrevSet(op) ==
    IF ret.op = op
    THEN [op |-> ret.op, status |-> ret.status, x |-> ret.raw.x]
    ELSE [op |-> "other", status |-> "Ok", x |-> 0]

\* what a fixed-layout register request returns: a failure, zero, or a
\* positive value
RegResults == (0 - MaxNeg)..Min(1, MaxRaw)

UnchangedByRegs == UNCHANGED <<kvm, vm, vcpu, heap, user, openFds, mappings, views, runSeq, ctor>>

\* VcpuFd::get_regs on the raw result r and the structure k the request left
get_regs(r, k, e) == IF r # 0 THEN Err(e) ELSE Ok(k)

\* VcpuFd::set_regs on the raw result r
set_regs(r, e) == IF r # 0 THEN Err(e) ELSE Ok(Unit)

VcpuFd_get_regs ==
    /\ Idle /\ vcpu # NoVcpu
    /\ \E r \in RegResults :
       \E e \in ErrnoOf(r # 0) :
          ret' = Call("get_regs", [r |-> r, prev |-> PrevSet("set_regs")],
                      get_regs(r, kernel_get(r, kern.regs["regs"]), e))
    /\ UNCHANGED kern
    /\ UnchangedByRegs

VcpuFd_set_regs ==
    /\ Idle /\ vcpu # NoVcpu
    /\ \E x \in RegValues, r \in RegResults :
       \E e \in ErrnoOf(r # 0) :
          /\ ret' = Call("set_regs", [r |-> r, x |-> x], set_regs(r, e))
          /\ kern' = [kern EXCEPT !.regs["regs"] = kernel_set(r, @, x)]
    /\ UnchangedByRegs

\* VcpuFd::get_sregs on the raw result r and the structure k the request left
get_sregs(r, k, e) == IF r # 0 THEN Err(e) ELSE Ok(k)

\* VcpuFd::set_sregs on the raw result r
set_sregs(r, e) == IF r # 0 THEN Err(e) ELSE Ok(Unit)

VcpuFd_get_sregs ==
    /\ Idle /\ vcpu # NoVcpu
    /\ \E r \in RegResults :
       \E e \in ErrnoOf(r # 0) :
          ret' = Call("get_sregs", [r |-> r, prev |-> PrevSet("set_sregs")],
                      get_sregs(r, kernel_get(r, kern.regs["sregs"]), e))
    /\ UNCHANGED kern
    /\ UnchangedByRegs

VcpuFd_set_sregs ==
    /\ Idle /\ vcpu # NoVcpu
    /\ \E x \in RegValues, r \in RegResults :
       \E e \in ErrnoOf(r # 0) :
          /\ ret' = Call("set_sregs", [r |-> r, x |-> x], set_sregs(r, e))
          /\ kern' = [kern EXCEPT !.regs["sregs"] = kernel_set(r, @, x)]
    /\ UnchangedByRegs

\* VcpuFd::get_fpu on the raw result r and the structure k the request left
get_fpu(r, k, e) == IF r # 0 THEN Err(e) ELSE Ok(k)

\* VcpuFd::set_fpu on the raw result r
set_fpu(r, e) == IF r < 0 THEN Err(e) ELSE Ok(Unit)

VcpuFd_get_fpu ==
    /\ Idle /\ vcpu # NoVcpu
    /\ \E r \in RegResults :
       \E e \in ErrnoOf(r # 0) :
          ret' = Call("get_fpu", [r |-> r, prev |-> PrevSet("set_fpu")],
                      get_fpu(r, kernel_get(r, kern.regs["fpu"]), e))
    /\ UNCHANGED kern
    /\ UnchangedByRegs

VcpuFd_set_fpu ==
    /\ Idle /\ vcpu # NoVcpu
    /\ \E x \in RegValues, r \in RegResults :
       \E e \in ErrnoOf(r < 0) :
          /\ ret' = Call("set_fpu", [r |-> r, x |-> x], set_fpu(r, e))
          /\ kern' = [kern EXCEPT !.regs["fpu"] = kernel_set(r, @, x)]
    /\ UnchangedByRegs

\* VcpuFd::get_lapic on the raw result r and the structure k the request left
get_lapic(r, k, e) == IF r < 0 THEN Err(e) ELSE Ok(k)

\* VcpuFd::set_lapic on the raw result r
set_lapic(r, e) == IF r < 0 THEN Err(e) ELSE Ok(Unit)

VcpuFd_get_lapic ==
    /\ Idle /\ vcpu # NoVcpu
    /\ \E r \in RegResults :
       \E e \in ErrnoOf(r < 0) :
          ret' = Call("get_lapic", [r |-> r, prev |-> PrevSet("set_lapic")],
                      get_lapic(r, kernel_get(r, kern.regs["lapic"]), e))
    /\ UNCHANGED kern
    /\ UnchangedByRegs

VcpuFd_set_lapic ==
    /\ Idle /\ vcpu # NoVcpu
    /\ \E x \in RegValues, r \in RegResults :
       \E e \in ErrnoOf(r < 0) :
          /\ ret' = Call("set_lapic", [r |-> r, x |-> x], set_lapic(r, e))
          /\ kern' = [kern EXCEPT !.regs["lapic"] = kernel_set(r, @, x)]
    /\ UnchangedByRegs

\* kvm_msrs: a count and a trailing array of entries
\* the data written to a model-specific register
MsrData == {0, 1}

MsrEntries == [index : MsrIndices, data : MsrData]

kvm_msrs(entries) == [nmsrs |-> Len(entries), entries |-> entries]

\* the kvm_msrs values given to set_msrs
MsrsInputs ==
    {kvm_msrs(<<>>)}
    \cup {kvm_msrs(<<a>>) : a \in MsrEntries}
    \cup (IF MaxMsrs >= 2 THEN {kvm_msrs(<<a, b>>) : a \in MsrEntries, b \in MsrEntries} ELSE {})
    \cup (IF MaxMsrs >= 3
          THEN {kvm_msrs(<<a, a, b>>) : a \in MsrEntries, b \in MsrEntries}
          ELSE {})

\* kvm_msrs::default(): no entries
kvm_msrs_default == kvm_msrs(<<>>)

\* the entries of msrs that a request returning r has processed
Processed(msrs, r) == SubSeq(msrs.entries, 1, Min(r, msrs.nmsrs))

\* KVM_SET_MSRS returning r: the kernel has written the first r entries, a
\* later entry for an index overriding an earlier one
kernel_set_msrs(r, stored, msrs) ==
    LET written == Processed(msrs, r)
    IN  [i \in MsrIndices |->
            LET hits == {j \in 1..Len(written) : written[j].index = i}
            IN  IF hits = {} THEN stored[i]
                ELSE written[CHOOSE j \in hits : \A h \in hits : h <= j].data]

\* KVM_GET_MSRS returning r: the kernel has filled in the data of the first r
\* of the msrs.nmsrs entries it was given
kernel_get_msrs(r, stored, msrs) ==
    [msrs EXCEPT !.entries =
        [j \in 1..Len(msrs.entries) |->
            IF j <= r THEN [msrs.entries[j] EXCEPT !.data = stored[msrs.entries[j].index]]
            ELSE msrs.entries[j]]]

\* VcpuFd::get_msrs: the request is given kvm_msrs::default(), and the
\* structure it left is returned by value
get_msrs(r, stored, e) ==
    LET msrs == kernel_get_msrs(r, stored, kvm_msrs_default)
    IN  IF r # 0 THEN Err(e) ELSE Ok(msrs)

set_msrs_all_written(msrs, r, e) == IF r < msrs.nmsrs THEN Err(e) ELSE Ok(Unit)

\* VcpuFd::set_msrs on the raw result r, the number of entries written
set_msrs(msrs, r, e) == IF r < 0 THEN Err(e) ELSE Ok(Unit)

\* the set_msrs call right before this one, with the entries it wrote
PrevSetMsrs ==
    IF ret.op = "set_msrs"
    THEN [op |-> ret.op, status |-> ret.status, x |-> Processed(ret.raw.msrs, ret.raw.r)]
    ELSE [op |-> "other", status |-> "Ok", x |-> <<>>]

VcpuFd_get_msrs ==
    /\ Idle /\ vcpu # NoVcpu
    /\ \E r \in RawResults :
       \E e \in ErrnoOf(r # 0) :
          ret' = Call("get_msrs", [r |-> r, prev |-> PrevSetMsrs], get_msrs(r, kern.msrs, e))
    /\ UNCHANGED kern
    /\ UnchangedByRegs

\* the kernel writes at most the entries it was given
VcpuFd_set_msrs ==
    /\ Idle /\ vcpu # NoVcpu
    /\ \E msrs \in MsrsInputs :
       \E r \in {x \in RawResults : x <= msrs.nmsrs} :
       \E e \in ErrnoOf(r < 0) :
          /\ ret' = Call("set_msrs", [r |-> r, msrs |-> msrs], set_msrs(msrs, r, e))
          /\ kern' = [kern EXCEPT !.msrs = kernel_set_msrs(r, @, msrs)]
    /\ UnchangedByRegs

\* /dev/kvm is open, a VmFd and a VcpuFd have been constructed
InitRegs ==
    LET kvm_fd == LowestFree(Stdio)
        vm_fd == LowestFree(Stdio \cup {kvm_fd})
        vcpu_fd == LowestFree(Stdio \cup {kvm_fd, vm_fd})
        cpuid == kernel_fill(CpuId_new(DefaultNrVcpus), DefaultNrVcpus)
        run_mmap == [fd |-> vcpu_fd, size |-> MaxRaw]
    IN  /\ kvm = [kvm |-> kvm_fd]
        /\ vm = [vm |-> vm_fd, cpuid |-> "cached", run_size |-> MaxRaw]
        /\ ctor = [run_size |-> MaxRaw, cpuid |-> cpuid]
        /\ vcpu = [vcpu |-> vcpu_fd, run_mmap |-> run_mmap, dropped |-> {}]
        /\ kern = KernInit
        /\ heap = [r \in CpuIdRefs |-> IF r = "cached" THEN cpuid ELSE NoCpuId]
        /\ user = NoRef
        /\ openFds = Stdio \cup {kvm_fd, vm_fd, vcpu_fd}
        /\ mappings = {run_mmap}
        /\ views = {}
        /\ runSeq = 0
        /\ ret = Call("VcpuFd::new",
                      [id |-> 0, create |-> vcpu_fd, errno |-> NoErrno, mmap |-> "ok"],
                      Ok(Unit))

NextRegs ==
    \/ VcpuFd_get_regs
    \/ VcpuFd_set_regs
    \/ VcpuFd_get_sregs
    \/ VcpuFd_set_sregs
    \/ VcpuFd_get_fpu
    \/ VcpuFd_set_fpu
    \/ VcpuFd_get_lapic
    \/ VcpuFd_set_lapic
    \/ VcpuFd_get_msrs
    \/ VcpuFd_set_msrs

SpecRegs == InitRegs /\ [][NextRegs]_vars

\* a get that succeeded right after the matching set had succeeded returns
\* what that set wrote
RoundTrip(getop, setop) ==
    (ret.op = getop /\ ret.status = "Ok"
        /\ ret.raw.prev.op = setop /\ ret.raw.prev.status = "Ok")
    => ret.val = ret.raw.prev.x

\* C12 as stated: for each register set, a get right after a successful set
\* returns what was written; get_msrs() after set_msrs(m) returns the entries
\* of m that were written.
C12_SetGetRoundTrip ==
    /\ RoundTrip("get_regs", "set_regs")
    /\ RoundTrip("get_sregs", "set_sregs")
    /\ RoundTrip("get_fpu", "set_fpu")
    /\ RoundTrip("get_lapic", "set_lapic")
    /\ ((ret.op = "get_msrs" /\ ret.status = "Ok"
            /\ ret.raw.prev.op = "set_msrs" /\ ret.raw.prev.status = "Ok")
        => ret.val.entries = ret.raw.prev.x)

\* C13: set_msrs() returns an error exactly when the raw result of
\* KVM_SET_MSRS is negative, and Ok(()) for every other result, also one
\* smaller than the number of entries given.
C13_SetMsrsBinary ==
    ret.op = "set_msrs" =>
        /\ (ret.status = "Err" <=> ret.raw.r < 0)
        /\ (ret.raw.r >= 0 => ret.status = "Ok" /\ ret.val = Unit)

\* fewer entries were written than given, and the call returned Ok(())
C13_Witness ==
    /\ ret.op = "set_msrs"
    /\ ret.raw.r >= 0
    /\ ret.raw.r < ret.raw.msrs.nmsrs
    /\ ret.status = "Ok"

====
